---- MODULE Spec2Model ----
(***************************************************************************)
(* Anomaly detector for yearly municipal service metrics.                  *)
(*                                                                         *)
(* The model follows one click on "Run Anomaly Detection": the GUI checks  *)
(* its fields (gui.py), the worker thread calls handle_anomaly_detection   *)
(* (controller.py), which runs run_anomaly_detection (logic.py): read the  *)
(* CSV, classify every target-year cell against its history, build the     *)
(* per-key dictionaries, pivot the table, write the workbook and the       *)
(* sorted events summary.                                                  *)
(*                                                                         *)
(* Encoding of the data pandas hands to the code:                          *)
(*  - text is a sequence of character codes (65 = "A", 32 = " "), so that  *)
(*    str.strip() and Python's string order are computed, not assumed;     *)
(*  - a cell is a record [kind, n]: kind "na" is an empty field (NaN),     *)
(*    kind "num" a field float() accepts (its value n), kind "str" a       *)
(*    field float() rejects with ValueError (such as "abc");               *)
(*  - an empty category field is NaN; read_csv never yields the empty      *)
(*    string, so NaN is written as the empty sequence;                     *)
(*  - a column holding one "str" field has dtype object and holds Python   *)
(*    strings; a column without one is numeric.                            *)
(* Jurisdictions and years are present in every row of the modelled        *)
(* tables, values are integers and thresholds are whole numbers.           *)
(***************************************************************************)
EXTENDS Integers, Sequences, FiniteSets, TLC

VARIABLES
    csv_entry,          \* gui.py: text of the CSV path entry ("" when empty)
    csv_file,           \* the rows read_csv returns for that path
    threshold_entry,    \* gui.py: text of the threshold entry
    year_entry,         \* gui.py: text of the target year entry
    output_path,        \* gui.py: self.output_path ("" when None)
    messagebox,         \* last message shown to the user
    pc,                 \* position of the run
    args,               \* (threshold, target_year) passed to the worker thread
    anomalies,          \* logic.py: list of anomaly tuples
    missing_data,       \* logic.py: list of missing-value tuples
    non_numeric,        \* logic.py: list of non-numeric tuples
    anomaly_dict,       \* logic.py: key -> note
    missing_dict,
    non_numeric_dict,
    pivot_df,           \* logic.py: table returned by transform_data
    summary_data,       \* logic.py: rows of the "Events Summary" sheet
    workbook            \* the output file: "none", "saved"

vars == <<csv_entry, csv_file, threshold_entry, year_entry, output_path,
          messagebox, pc, args, anomalies, missing_data, non_numeric,
          anomaly_dict, missing_dict, non_numeric_dict, pivot_df,
          summary_data, workbook>>

----------------------------------------------------------------------------
(* Cells and text *)

NA == [kind |-> "na", n |-> 0]
Num(n) == [kind |-> "num", n |-> n]
Txt == [kind |-> "str", n |-> 0]

NaN == <<>>

\* pd.isna(x) / Series.notna() on a text field
isna(s) == s = NaN

RECURSIVE lstrip(_)
lstrip(s) == IF s # <<>> /\ Head(s) = 32 THEN lstrip(Tail(s)) ELSE s

RECURSIVE rstrip(_)
rstrip(s) == IF s # <<>> /\ s[Len(s)] = 32 THEN rstrip(SubSeq(s, 1, Len(s) - 1)) ELSE s

\* str(x).strip() of a text field
strip(s) == rstrip(lstrip(s))

\* Python's < on two str values: by code point, a proper prefix is smaller
RECURSIVE StrLess(_, _)
StrLess(a, b) ==
    IF b = <<>> THEN FALSE
    ELSE IF a = <<>> THEN TRUE
    ELSE IF Head(a) # Head(b) THEN Head(a) < Head(b)
    ELSE StrLess(Tail(a), Tail(b))

RECURSIVE SeqSum(_)
SeqSum(s) == IF s = <<>> THEN 0 ELSE Head(s) + SeqSum(Tail(s))

----------------------------------------------------------------------------
(* run_anomaly_detection: the table and the detection loop *)

\* df.columns[3:], the metric codes of the header: "m1", "m2"
metric_cols == << <<109, 49>>, <<109, 50>> >>

\* df[df[category_col].notna()]: the index labels of the rows kept
df_detection(df) == SelectSeq([i \in 1..Len(df) |-> i], LAMBDA i : ~isna(df[i].a_service))

\* dtype of the year column: object as soon as one field is not a number
YearColumnIsObject(df) == \E i \in 1..Len(df) : df[i].a_fiscal_year.kind = "str"

\* rows of df_detection with an earlier year, the same municipality and the same
\* category, restricted to [year, category, metric] and passed through dropna()
\* variant of hist_rows that also takes the rows of the current year
hist_rows_upto(df, current_year, raw_muni, raw_category, j) ==
    SelectSeq(SelectSeq([k \in 1..Len(df) |-> k], LAMBDA k : ~isna(df[k].a_service)),
              LAMBDA k : /\ df[k].a_fiscal_year.kind = "num"
                         /\ df[k].a_fiscal_year.n <= current_year
                         /\ df[k].a_jurisdiction = raw_muni
                         /\ df[k].a_service = raw_category
                         /\ df[k].vals[j].kind # "na")

hist_rows(df, current_year, raw_muni, raw_category, j) ==
    SelectSeq(df_detection(df),
              LAMBDA k : /\ df[k].a_fiscal_year.kind = "num"
                         /\ df[k].a_fiscal_year.n < current_year
                         /\ df[k].a_jurisdiction = raw_muni
                         /\ df[k].a_service = raw_category
                         /\ df[k].vals[j].kind # "na")

\* hist_rows[metric].astype(float).values; ValueError on any field gives np.array([])
historical_data(df, hr, j) ==
    IF \E p \in 1..Len(hr) : df[hr[p]].vals[j].kind = "str"
    THEN <<>>
    ELSE [p \in 1..Len(hr) |-> df[hr[p]].vals[j].n]

\* the "year: value" lines of the note, one per row of hist_rows
hist_comment(df, hr, j) ==
    [p \in 1..Len(hr) |-> <<df[hr[p]].a_fiscal_year.n, df[hr[p]].vals[j]>>]

\* n * (current_val - mean), with n = len(historical_data)
DevNum(v, hd) == Len(hd) * v - SeqSum(hd)

\* n^2 * variance (population): n * sum(x^2) - sum(x)^2
VarNum(hd) == Len(hd) * SeqSum([p \in 1..Len(hd) |-> hd[p] * hd[p]]) - SeqSum(hd) * SeqSum(hd)

\* abs(z_score) > threshold, where z_score = (current_val - mean) / std_dev if
\* std_dev != 0 else 0; in exact arithmetic |z| = |DevNum| / sqrt(VarNum)
IsAnomaly(v, hd, threshold) ==
    IF VarNum(hd) = 0
    THEN 0 > threshold
    ELSE threshold < 0 \/ DevNum(v, hd) * DevNum(v, hd) > threshold * threshold * VarNum(hd)

\* one pass of the loop body for metric j and the row labelled i
DetectCell(df, j, i, threshold, target_year, acc) ==
    LET row == df[i]
        raw_year == row.a_fiscal_year
        raw_muni == row.a_jurisdiction
        raw_category == row.a_service
        val == row.vals[j]
        excel_row == i + 1
        excel_col == j + 3
    IN  IF raw_year.kind # "num" THEN acc
        ELSE IF raw_year.n # target_year THEN acc
        ELSE IF val.kind = "str"
        THEN [acc EXCEPT !.non_numeric = Append(@,
                 [excel_row |-> excel_row, excel_col |-> excel_col, value |-> val,
                  year |-> raw_year, muni |-> raw_muni, category |-> raw_category,
                  metric |-> metric_cols[j]])]
        ELSE IF YearColumnIsObject(df)
        THEN [acc EXCEPT !.raised = TRUE]
        ELSE LET hr == hist_rows(df, raw_year.n, raw_muni, raw_category, j)
                 hd == historical_data(df, hr, j)
                 hc == hist_comment(df, hr, j)
             IN  IF val.kind = "na" /\ Len(hd) > 0
                 THEN [acc EXCEPT !.missing_data = Append(@,
                          [excel_row |-> excel_row, excel_col |-> excel_col,
                           year |-> raw_year, muni |-> raw_muni,
                           category |-> raw_category, metric |-> metric_cols[j],
                           hist_comment |-> hc])]
                 ELSE IF Len(hd) < 2 \/ val.kind = "na" THEN acc
                 ELSE IF IsAnomaly(val.n, hd, threshold)
                 THEN [acc EXCEPT !.anomalies = Append(@,
                          [excel_row |-> excel_row, excel_col |-> excel_col,
                           current_val |-> val.n, historical_data |-> hd,
                           year |-> raw_year, muni |-> raw_muni,
                           category |-> raw_category, metric |-> metric_cols[j],
                           hist_comment |-> hc])]
                 ELSE acc

\* variant of DetectLoop without the comparison of the row's year with target_year
RECURSIVE DetectLoop_every_year(_, _, _, _, _)
DetectLoop_every_year(df, threshold, target_year, c, acc) ==
    LET det == SelectSeq([i \in 1..Len(df) |-> i], LAMBDA i : ~isna(df[i].a_service))
        i == det[(c % Len(det)) + 1]
    IN  IF acc.raised \/ c >= Len(metric_cols) * Len(det) THEN acc
        ELSE DetectLoop_every_year(df, threshold, target_year, c + 1,
                 DetectCell(df, (c \div Len(det)) + 1, i, threshold,
                            IF df[i].a_fiscal_year.kind = "num"
                            THEN df[i].a_fiscal_year.n ELSE target_year, acc))

\* for metric in metric_cols: for idx, row in df_detection.iterrows(): ...
\* c counts the cells visited so far; an exception ends the loop
RECURSIVE DetectLoop(_, _, _, _, _)
DetectLoop(df, threshold, target_year, c, acc) ==
    LET det == df_detection(df)
    IN  IF acc.raised \/ c >= Len(metric_cols) * Len(det) THEN acc
        ELSE DetectLoop(df, threshold, target_year, c + 1,
                        DetectCell(df, (c \div Len(det)) + 1, det[(c % Len(det)) + 1],
                                   threshold, target_year, acc))

NoEvents == [anomalies |-> <<>>, missing_data |-> <<>>, non_numeric |-> <<>>, raised |-> FALSE]

Detection(df, threshold, target_year) == DetectLoop(df, threshold, target_year, 0, NoEvents)

----------------------------------------------------------------------------
(* run_anomaly_detection: dictionaries for highlighting *)

\* key = (str(muni).strip(), str(category).strip(), metric)
\* variant of EventKey that leaves the category as read
EventKey_raw_category(e) == <<strip(e.muni), e.category, e.metric>>

EventKey(e) == <<strip(e.muni), strip(e.category), e.metric>>

\* for e in events: d[key] = note; the note is a rendering of the tuple e
RECURSIVE BuildDict(_, _)
BuildDict(events, d) ==
    IF events = <<>> THEN d
    ELSE LET e == Head(events)
             key == EventKey(e)
         IN  BuildDict(Tail(events),
                       [k \in (DOMAIN d) \cup {key} |-> IF k = key THEN e ELSE d[k]])

\* key rebuilt from the first three cells of a row of a transformed sheet
PivotKey(r) == <<strip(r.Municipality), strip(r.Category), strip(r.Metric)>>

----------------------------------------------------------------------------
(* transform_data *)

\* the rows of df_detection, in index order
detection_rows(df) == [p \in 1..Len(df_detection(df)) |-> df[df_detection(df)[p]]]

\* transformed: one [Municipality, Category, Metric, Year, Value] per row and metric
transformed(rows) ==
    [t \in 1..(Len(rows) * Len(metric_cols)) |->
        LET row == rows[((t - 1) \div Len(metric_cols)) + 1]
            j == ((t - 1) % Len(metric_cols)) + 1
        IN  [Municipality |-> row.a_jurisdiction, Category |-> row.a_service,
             Metric |-> metric_cols[j], Year |-> row.a_fiscal_year,
             Value |-> row.vals[j]]]

\* variant of GroupFirst that keeps the last value of the group
GroupLast(T, m, c, k, y) ==
    LET idx == {t \in 1..Len(T) : /\ T[t].Municipality = m /\ T[t].Category = c
                                  /\ T[t].Metric = k /\ T[t].Year = y
                                  /\ T[t].Value.kind # "na"}
    IN  IF idx = {} THEN [kind |-> "na", n |-> 0]
        ELSE T[CHOOSE t \in idx : \A u \in idx : t >= u].Value

\* aggfunc='first' on the group (m, c, k, y): GroupBy.first() skips NaN
GroupFirst(T, m, c, k, y) ==
    LET idx == {t \in 1..Len(T) : /\ T[t].Municipality = m /\ T[t].Category = c
                                  /\ T[t].Metric = k /\ T[t].Year = y
                                  /\ T[t].Value.kind # "na"}
    IN  IF idx = {} THEN NA
        ELSE T[CHOOSE t \in idx : \A u \in idx : t <= u].Value

\* order of the index (Municipality, Category, Metric) of the pivot
TripleLess(a, b) ==
    \/ StrLess(a[1], b[1])
    \/ a[1] = b[1] /\ StrLess(a[2], b[2])
    \/ a[1] = b[1] /\ a[2] = b[2] /\ StrLess(a[3], b[3])

RECURSIVE SortTriples(_)
SortTriples(S) ==
    IF S = {} THEN <<>>
    ELSE LET least == CHOOSE a \in S : \A b \in S \ {a} : TripleLess(a, b)
         IN  <<least>> \o SortTriples(S \ {least})

\* order of the year columns: numbers ascending; in an object column digits
\* sort before letters
YearLess(a, b) ==
    IF a.kind = "num" /\ b.kind = "num" THEN a.n < b.n
    ELSE a.kind = "num" /\ b.kind = "str"

RECURSIVE SortYears(_)
SortYears(S) ==
    IF S = {} THEN <<>>
    ELSE LET least == CHOOSE a \in S : \A b \in S \ {a} : YearLess(a, b)
         IN  <<least>> \o SortYears(S \ {least})

\* pivot_table(index=[Municipality, Category, Metric], columns='Year',
\* values='Value', aggfunc='first'), dropna=True: a group whose values are all
\* NaN is dropped before unstacking
transform_data(rows) ==
    LET T == transformed(rows)
        kept == {t \in 1..Len(T) :
                    GroupFirst(T, T[t].Municipality, T[t].Category, T[t].Metric,
                               T[t].Year).kind # "na"}
        index == SortTriples({<<T[t].Municipality, T[t].Category, T[t].Metric>> : t \in kept})
        columns == SortYears({T[t].Year : t \in kept})
    IN  [columns |-> columns,
         rows |-> [p \in 1..Len(index) |->
                     [Municipality |-> index[p][1], Category |-> index[p][2],
                      Metric |-> index[p][3],
                      cells |-> [q \in 1..Len(columns) |->
                                   GroupFirst(T, index[p][1], index[p][2], index[p][3],
                                              columns[q])]]]]

----------------------------------------------------------------------------
(* run_anomaly_detection: the "Events Summary" sheet *)

\* summary_data before the sort: anomalies, then missing, then non-numeric
summary_rows(an, mi, nn) ==
    [p \in 1..Len(an) |-> [muni |-> an[p].muni, category |-> an[p].category,
                           metric_note |-> an[p].metric, type |-> "Anomaly",
                           value |-> Num(an[p].current_val), note |-> an[p]]]
    \o [p \in 1..Len(mi) |-> [muni |-> mi[p].muni, category |-> mi[p].category,
                               metric_note |-> mi[p].metric, type |-> "Missing",
                               value |-> NA, note |-> mi[p]]]
    \o [p \in 1..Len(nn) |-> [muni |-> nn[p].muni, category |-> nn[p].category,
                               metric_note |-> nn[p].metric, type |-> "Non-Numeric",
                               value |-> nn[p].value, note |-> nn[p]]]

\* variant of InsertRow that places x before the rows of its jurisdiction
InsertRow_before_equal(sorted, x) ==
    LET n == Cardinality({p \in 1..Len(sorted) : StrLess(sorted[p].muni, x.muni)})
    IN  SubSeq(sorted, 1, n) \o <<x>> \o SubSeq(sorted, n + 1, Len(sorted))

\* place of x in a list already sorted by x[0]: behind every row not greater
InsertRow(sorted, x) ==
    LET n == Cardinality({p \in 1..Len(sorted) : ~StrLess(x.muni, sorted[p].muni)})
    IN  SubSeq(sorted, 1, n) \o <<x>> \o SubSeq(sorted, n + 1, Len(sorted))

\* summary_data.sort(key=lambda x: x[0]): list.sort is stable
RECURSIVE SortRows(_, _)
SortRows(rows, sorted) ==
    IF rows = <<>> THEN sorted ELSE SortRows(Tail(rows), InsertRow(sorted, Head(rows)))

sort_summary(rows) == SortRows(rows, <<>>)

----------------------------------------------------------------------------
(* The run *)

NoPivot == [columns |-> <<>>, rows |-> <<>>]

InitRun ==
    /\ messagebox = ""
    /\ pc = "idle"
    /\ args = [threshold |-> 0, target_year |-> 0]
    /\ anomalies = <<>>
    /\ missing_data = <<>>
    /\ non_numeric = <<>>
    /\ anomaly_dict = <<>>
    /\ missing_dict = <<>>
    /\ non_numeric_dict = <<>>
    /\ pivot_df = NoPivot
    /\ summary_data = <<>>
    /\ workbook = "none"

\* AnomalyDetectorApp.run_detection: validate the fields, start the thread
run_detection ==
    /\ pc = "idle"
    /\ IF csv_entry = ""
       THEN /\ messagebox' = "Please select a CSV file."
            /\ UNCHANGED <<pc, args>>
       ELSE IF output_path = ""
       THEN /\ messagebox' = "Please select an output location using 'Save As'."
            /\ UNCHANGED <<pc, args>>
       ELSE IF threshold_entry.kind # "num" \/ year_entry.kind # "num"
       THEN /\ messagebox' = "Please enter valid numbers for threshold and target year."
            /\ UNCHANGED <<pc, args>>
       ELSE /\ pc' = "thread"
            /\ args' = [threshold |-> threshold_entry.n, target_year |-> year_entry.n]
            /\ UNCHANGED messagebox
    /\ UNCHANGED <<csv_entry, csv_file, threshold_entry, year_entry, output_path,
                   anomalies, missing_data, non_numeric, anomaly_dict, missing_dict,
                   non_numeric_dict, pivot_df, summary_data, workbook>>

\* run_anomaly_detection, lines 27-113: read the CSV and run the detection loop
detect ==
    /\ pc = "thread"
    /\ LET r == Detection(csv_file, args.threshold, args.target_year)
       IN  /\ anomalies' = r.anomalies
           /\ missing_data' = r.missing_data
           /\ non_numeric' = r.non_numeric
           /\ pc' = IF r.raised THEN "raised" ELSE "detected"
    /\ UNCHANGED <<csv_entry, csv_file, threshold_entry, year_entry, output_path,
                   messagebox, args, anomaly_dict, missing_dict, non_numeric_dict,
                   pivot_df, summary_data, workbook>>

\* run_anomaly_detection, lines 115-151: the three dictionaries and the pivot
build ==
    /\ pc = "detected"
    /\ anomaly_dict' = BuildDict(anomalies, <<>>)
    /\ missing_dict' = BuildDict(missing_data, <<>>)
    /\ non_numeric_dict' = BuildDict(non_numeric, <<>>)
    /\ pivot_df' = transform_data(detection_rows(csv_file))
    /\ pc' = "built"
    /\ UNCHANGED <<csv_entry, csv_file, threshold_entry, year_entry, output_path,
                   messagebox, args, anomalies, missing_data, non_numeric,
                   summary_data, workbook>>

\* run_anomaly_detection, lines 153-337: write the sheets, sort the summary, save
report ==
    /\ pc = "built"
    /\ summary_data' = sort_summary(summary_rows(anomalies, missing_data, non_numeric))
    /\ workbook' = "saved"
    /\ pc' = "reported"
    /\ UNCHANGED <<csv_entry, csv_file, threshold_entry, year_entry, output_path,
                   messagebox, args, anomalies, missing_data, non_numeric,
                   anomaly_dict, missing_dict, non_numeric_dict, pivot_df>>

\* handle_anomaly_detection returns its message; run_detection_thread shows it
run_detection_thread ==
    /\ pc \in {"raised", "reported"}
    /\ messagebox' = IF pc = "raised"
                     THEN "Error during anomaly detection"
                     ELSE "Anomaly detection complete! Output saved"
    /\ pc' = "done"
    /\ UNCHANGED <<csv_entry, csv_file, threshold_entry, year_entry, output_path,
                   args, anomalies, missing_data, non_numeric, anomaly_dict,
                   missing_dict, non_numeric_dict, pivot_df, summary_data, workbook>>

Next == run_detection \/ detect \/ build \/ report \/ run_detection_thread

----------------------------------------------------------------------------
(* Inputs: the state of the window when "Run Anomaly Detection" is clicked, *)
(* and the CSV file behind the chosen path                                  *)

MaxRows == 3

\* the longer tables of SpecLong: two history rows, a target row and one more
MaxRowsLong == 4

Row(y, m, c, v1, v2) ==
    [a_fiscal_year |-> y, a_jurisdiction |-> m, a_service |-> c, vals |-> <<v1, v2>>]

Tables(Rows, n) == UNION {[1..k -> Rows] : k \in 1..n}

\* every field filled and valid; or one of the four ways run_detection rejects
InitOf(Rows, n, Thresholds) ==
    /\ InitRun
    /\ \/ /\ csv_entry = "data.csv"
          /\ output_path = "out.xlsx"
          /\ threshold_entry \in {Num(t) : t \in Thresholds}
          /\ year_entry = Num(2)
          /\ csv_file \in Tables(Rows, n)
       \/ /\ \E g \in {<<"", "out.xlsx", Num(1), Num(2)>>,
                       <<"data.csv", "", Num(1), Num(2)>>,
                       <<"data.csv", "out.xlsx", Txt, Num(2)>>,
                       <<"data.csv", "out.xlsx", Num(1), Txt>>} :
                /\ csv_entry = g[1]
                /\ output_path = g[2]
                /\ threshold_entry = g[3]
                /\ year_entry = g[4]
          /\ csv_file \in Tables(Rows, 1)

\* Years: 1 is earlier than the target year 2, 3 is later.
\* RowsMain: a year that is earlier, the target, or not a number; one
\* jurisdiction "A" and category "c"; metric m1 empty, text or one of three
\* numbers, m2 empty; and one target-year row without a category.
RowsMain ==
    {Row(y, <<65>>, <<99>>, v, NA) :
        y \in {Num(1), Num(2), Txt}, v \in {NA, Txt, Num(10), Num(20), Num(40)}}
    \cup {Row(Num(2), <<65>>, NaN, Txt, NA)}

\* RowsHist: jurisdictions "A", "B" and categories "c", "d"; earlier rows with a
\* number, target rows empty or with a number, later rows with a number
RowsHist ==
    {Row(yv[1], e[1], e[2], yv[2], NA) :
        e \in {<< <<65>>, <<99>> >>, << <<66>>, <<99>> >>, << <<65>>, <<100>> >>},
        yv \in {<<Num(1), Num(10)>>, <<Num(1), Num(20)>>, <<Num(2), NA>>,
                <<Num(2), Num(40)>>, <<Num(3), Num(10)>>}}

\* RowsPivot: two years, two jurisdictions, m1 empty or one of two numbers, and
\* one row without a category
RowsPivot ==
    {Row(y, m, <<99>>, v, NA) :
        y \in {Num(1), Num(2)}, m \in {<<65>>, <<66>>}, v \in {NA, Num(10), Num(20)}}
    \cup {Row(Num(1), <<65>>, NaN, Num(10), NA)}

\* RowsSort: jurisdictions "A", "B"; earlier rows with a number in m1; target
\* rows with m1 and m2 empty or text, or with a number in m1
RowsSort ==
    {Row(Num(1), m, <<99>>, Num(v), NA) : m \in {<<65>>, <<66>>}, v \in {10, 20}}
    \cup {Row(Num(2), m, <<99>>, v[1], v[2]) :
            m \in {<<65>>, <<66>>},
            v \in {<<NA, NA>>, <<NA, Txt>>, <<Txt, NA>>, <<Txt, Txt>>, <<Num(40), NA>>}}

\* RowsKey: jurisdictions "A", "A " and categories "c", " c"; earlier rows with
\* a number, target rows empty, text or with a number
RowsKey ==
    {Row(yv[1], m, c, yv[2], NA) :
        m \in {<<65>>, <<65, 32>>}, c \in {<<99>>, <<32, 99>>},
        yv \in {<<Num(1), Num(10)>>, <<Num(1), Num(20)>>, <<Num(2), NA>>,
                <<Num(2), Txt>>, <<Num(2), Num(40)>>}}

Init == InitOf(RowsMain, MaxRows, {-1, 0, 1})
InitLong == InitOf(RowsMain, MaxRowsLong, {1})
InitHist == InitOf(RowsHist, MaxRows, {1})
InitPivot == InitOf(RowsPivot, MaxRows, {1})
InitSort == InitOf(RowsSort, MaxRows, {1})
InitKey == InitOf(RowsKey, MaxRows, {1})

Spec == Init /\ [][Next]_vars
SpecLong == InitLong /\ [][Next]_vars
SpecHist == InitHist /\ [][Next]_vars
SpecPivot == InitPivot /\ [][Next]_vars
SpecSort == InitSort /\ [][Next]_vars
SpecKey == InitKey /\ [][Next]_vars

----------------------------------------------------------------------------
(* Vocabulary of the properties *)

\* the detection loop has ended, normally or by an exception
LoopOver == pc \notin {"idle", "thread"}

\* run_anomaly_detection has returned normally
Succeeded == workbook = "saved"

\* the dictionaries and the pivot exist
Built == pc \in {"built", "reported"} \/ (pc = "done" /\ Succeeded)

Metrics == 1..Len(metric_cols)

\* rows of the detection set: the rows of the file that have a category
DetectionSet == {i \in 1..Len(csv_file) : csv_file[i].a_service # NaN}

\* rows of the detection set whose year equals the target year
TargetRows ==
    {i \in DetectionSet : /\ csv_file[i].a_fiscal_year.kind = "num"
                          /\ csv_file[i].a_fiscal_year.n = args.target_year}

\* the events of a list recorded for the cell (row i, metric j)
At(list, i, j) ==
    {p \in 1..Len(list) : list[p].excel_row = i + 1 /\ list[p].excel_col = j + 3}

NoEventAt(i, j) ==
    At(anomalies, i, j) = {} /\ At(missing_data, i, j) = {} /\ At(non_numeric, i, j) = {}

\* rows of the detection set with the jurisdiction and category of row i, a
\* strictly earlier year and a present, numeric value of metric j
ValidHistory(i, j) ==
    {k \in DetectionSet : /\ csv_file[k].a_jurisdiction = csv_file[i].a_jurisdiction
                          /\ csv_file[k].a_service = csv_file[i].a_service
                          /\ csv_file[k].a_fiscal_year.kind = "num"
                          /\ csv_file[k].a_fiscal_year.n < args.target_year
                          /\ csv_file[k].vals[j].kind = "num"}

HistoryValues(i, j) ==
    LET ks == SelectSeq([k \in 1..Len(csv_file) |-> k], LAMBDA k : k \in ValidHistory(i, j))
    IN  [p \in 1..Len(ks) |-> csv_file[ks[p]].vals[j].n]

\* |z| > t for z = 0 when sd = 0, else (v - mean) / sd, over the values H:
\* with n = Len(H) and S = sum(H), n * (x - mean) = n * x - S, so
\* z^2 = n * (n * v - S)^2 / sum((n * x - S)^2)
ZAbove(v, H, t) ==
    LET n == Len(H)
        S == SeqSum(H)
        SqDev == SeqSum([p \in 1..n |-> (n * H[p] - S) * (n * H[p] - S)])
    IN  IF SqDev = 0 THEN 0 > t
        ELSE t < 0 \/ n * (n * v - S) * (n * v - S) > t * t * SqDev

----------------------------------------------------------------------------
(* C1: every target-year cell of the detection set that holds a value which
   is not a number gets exactly one NonNumeric event, whatever its history. *)
C1_NonNumericAlways ==
    LoopOver =>
        \A i \in TargetRows : \A j \in Metrics :
            csv_file[i].vals[j].kind = "str" => Cardinality(At(non_numeric, i, j)) = 1

(* C2: a target-year cell with an absent value gets a Missing event if and
   only if some earlier row of the same jurisdiction and category holds a
   numeric value of the metric; without such a row it gets no event. *)
C2_MissingIffHistory ==
    LoopOver =>
        \A i \in TargetRows : \A j \in Metrics :
            csv_file[i].vals[j].kind = "na" =>
                /\ (At(missing_data, i, j) # {}) <=> (ValidHistory(i, j) # {})
                /\ ValidHistory(i, j) = {} => NoEventAt(i, j)

(* C3: a target-year cell with a numeric value v gets no event when its
   history has fewer than 2 points, and otherwise an Anomaly event if and
   only if |z| > threshold. *)
C3_AnomalyIffZAbove ==
    LoopOver =>
        \A i \in TargetRows : \A j \in Metrics :
            csv_file[i].vals[j].kind = "num" =>
                IF Len(HistoryValues(i, j)) < 2
                THEN NoEventAt(i, j)
                ELSE (At(anomalies, i, j) # {}) <=>
                         ZAbove(csv_file[i].vals[j].n, HistoryValues(i, j), args.threshold)

(* C4: a cell whose history values are all equal is never recorded as an
   Anomaly, whatever the threshold. *)
C4_NoAnomalyOnZeroVariance ==
    \A p \in 1..Len(anomalies) :
        \E x \in 1..Len(anomalies[p].historical_data), y \in 1..Len(anomalies[p].historical_data) :
            anomalies[p].historical_data[x] # anomalies[p].historical_data[y]

(* C8: a run requested with threshold <= 0 fails before any classification:
   the detection loop is never run, no event is recorded, nothing is written. *)
C8_NonPositiveThresholdRejected ==
    (threshold_entry.kind = "num" /\ threshold_entry.n <= 0) =>
        /\ pc \notin {"detected", "built", "reported"}
        /\ anomalies = <<>> /\ missing_data = <<>> /\ non_numeric = <<>>
        /\ workbook = "none"
        /\ messagebox # "Anomaly detection complete! Output saved"

(* C10: a row whose year is not a number never aborts the run, and the other
   rows are classified as if that row were not in the input. *)
C10_BadYearRowSkipped ==
    LET clean == SelectSeq(csv_file, LAMBDA r : r.a_fiscal_year.kind # "str")
        ref == Detection(clean, args.threshold, args.target_year)
        Unplaced(list) == [p \in 1..Len(list) |-> [list[p] EXCEPT !.excel_row = 0]]
    IN  LoopOver =>
            /\ pc # "raised"
            /\ messagebox # "Error during anomaly detection"
            /\ Unplaced(anomalies) = Unplaced(ref.anomalies)
            /\ Unplaced(missing_data) = Unplaced(ref.missing_data)
            /\ Unplaced(non_numeric) = Unplaced(ref.non_numeric)

----------------------------------------------------------------------------
\* rows that may serve as history of row i: detection set, same jurisdiction,
\* same category, year strictly before the target year
Allowed(i) ==
    {k \in DetectionSet : /\ csv_file[k].a_jurisdiction = csv_file[i].a_jurisdiction
                          /\ csv_file[k].a_service = csv_file[i].a_service
                          /\ csv_file[k].a_fiscal_year.kind = "num"
                          /\ csv_file[k].a_fiscal_year.n < args.target_year}

\* the rows K in file order
InOrder(K) == SelectSeq([k \in 1..Len(csv_file) |-> k], LAMBDA k : k \in K)

\* the history trace that the rows K give for metric j
TraceOf(K, j) ==
    [p \in 1..Len(InOrder(K)) |->
        <<csv_file[InOrder(K)[p]].a_fiscal_year.n, csv_file[InOrder(K)[p]].vals[j]>>]

HistoryEvents == {anomalies[p] : p \in 1..Len(anomalies)}
                     \cup {missing_data[p] : p \in 1..Len(missing_data)}

(* C5: the history of every classified cell, as computed for its baseline and
   as listed in its trace, consists only of rows of the same jurisdiction and
   category with a year strictly before the target year. *)
C5_HistoryOnlyEarlierSameEntity ==
    LoopOver =>
        /\ \A e \in HistoryEvents :
              \E K \in SUBSET Allowed(e.excel_row - 1) :
                  e.hist_comment = TraceOf(K, e.excel_col - 3)
        /\ \A p \in 1..Len(anomalies) :
              Len(anomalies[p].historical_data) = Len(anomalies[p].hist_comment)
        /\ \A i \in TargetRows : \A j \in Metrics :
              LET hr == hist_rows(csv_file, csv_file[i].a_fiscal_year.n,
                                  csv_file[i].a_jurisdiction, csv_file[i].a_service, j)
              IN  \A p \in 1..Len(hr) : hr[p] \in Allowed(i)

\* an event with a history, in a table holding a row with a value that is not
\* part of it: another jurisdiction or category, or a year not before the target
C5_Witness ==
    /\ LoopOver
    /\ \E e \in HistoryEvents :
          /\ Len(e.hist_comment) >= 1
          /\ \E k \in DetectionSet \ Allowed(e.excel_row - 1) :
                /\ k # e.excel_row - 1
                /\ csv_file[k].vals[e.excel_col - 3].kind # "na"

----------------------------------------------------------------------------
\* the rows of the pivot whose first three cells are (m, c, k)
PivotRowsOf(m, c, k) ==
    {r \in 1..Len(pivot_df.rows) : /\ pivot_df.rows[r].Municipality = m
                                   /\ pivot_df.rows[r].Category = c
                                   /\ pivot_df.rows[r].Metric = k}

\* the cell of pivot row r in the column of year y; absent without the column
CellAt(r, y) ==
    IF \E q \in 1..Len(pivot_df.columns) : pivot_df.columns[q] = y
    THEN pivot_df.rows[r].cells[CHOOSE q \in 1..Len(pivot_df.columns) : pivot_df.columns[q] = y]
    ELSE NA

\* rows of the detection set with the jurisdiction, category and year of row i
SameCell(i) ==
    {k \in DetectionSet : /\ csv_file[k].a_jurisdiction = csv_file[i].a_jurisdiction
                          /\ csv_file[k].a_service = csv_file[i].a_service
                          /\ csv_file[k].a_fiscal_year = csv_file[i].a_fiscal_year}

Least(K) == CHOOSE k \in K : \A u \in K : k <= u

(* C6 as claimed: every row of the detection set and every metric has exactly
   one pivot row, whose cell for the row's year holds the value of the first
   row, in input order, with that jurisdiction, category, metric and year,
   also when that value is absent. *)
C6_PivotFirstWins ==
    Built =>
        \A i \in DetectionSet : \A j \in Metrics :
            LET R == PivotRowsOf(csv_file[i].a_jurisdiction, csv_file[i].a_service, metric_cols[j])
            IN  /\ Cardinality(R) = 1
                /\ \A r \in R : CellAt(r, csv_file[i].a_fiscal_year)
                                    = csv_file[Least(SameCell(i))].vals[j]

(* C6 amended: the pivot row exists, once, exactly when some row of that
   jurisdiction and category holds a value of the metric; its cell for the
   row's year holds the first present value, in input order, among the rows
   with that jurisdiction, category, metric and year, and is absent when
   none of them holds a value. *)
C6_PivotFirstPresentWins ==
    Built =>
        \A i \in DetectionSet : \A j \in Metrics :
            LET R == PivotRowsOf(csv_file[i].a_jurisdiction, csv_file[i].a_service, metric_cols[j])
                any == \E k \in DetectionSet :
                          /\ csv_file[k].a_jurisdiction = csv_file[i].a_jurisdiction
                          /\ csv_file[k].a_service = csv_file[i].a_service
                          /\ csv_file[k].vals[j].kind # "na"
                P == {k \in SameCell(i) : csv_file[k].vals[j].kind # "na"}
            IN  /\ Cardinality(R) = IF any THEN 1 ELSE 0
                /\ \A r \in R : CellAt(r, csv_file[i].a_fiscal_year)
                                    = IF P = {} THEN NA ELSE csv_file[Least(P)].vals[j]

\* two rows of one jurisdiction, category and year, the first without a value
\* of m1 and the second with one, after the pivot was built
C6_Witness ==
    /\ Built
    /\ \E i \in DetectionSet : \E k \in SameCell(i) :
          /\ i < k
          /\ i = Least(SameCell(i))
          /\ csv_file[i].vals[1].kind = "na"
          /\ csv_file[k].vals[1].kind # "na"

----------------------------------------------------------------------------
\* place of an event type in the unsorted summary
TypeRank(t) == CASE t = "Anomaly" -> 1 [] t = "Missing" -> 2 [] t = "Non-Numeric" -> 3

\* a is recorded before b: earlier list, or the same list and earlier in the
\* detection loop (metric by metric, row by row)
RecordedBefore(a, b) ==
    \/ TypeRank(a.type) < TypeRank(b.type)
    \/ /\ a.type = b.type
       /\ \/ a.note.excel_col < b.note.excel_col
          \/ a.note.excel_col = b.note.excel_col /\ a.note.excel_row < b.note.excel_row

(* C7: the events summary is ascending by jurisdiction; rows of one
   jurisdiction keep their insertion order (anomalies, then missing, then
   non-numeric, each in detection order); sorting it again changes nothing. *)
C7_SummarySortedStable ==
    Succeeded =>
        LET u == summary_rows(anomalies, missing_data, non_numeric)
        IN  /\ Len(summary_data) = Len(anomalies) + Len(missing_data) + Len(non_numeric)
            /\ \A p, q \in 1..Len(summary_data) :
                  p < q => ~StrLess(summary_data[q].muni, summary_data[p].muni)
            /\ \A p, q \in 1..Len(summary_data) :
                  (p < q /\ summary_data[p].muni = summary_data[q].muni)
                      => RecordedBefore(summary_data[p], summary_data[q])
            /\ \A x \in 1..Len(u) :
                  SelectSeq(summary_data, LAMBDA r : r.muni = u[x].muni)
                      = SelectSeq(u, LAMBDA r : r.muni = u[x].muni)
            /\ sort_summary(summary_data) = summary_data

\* a summary of three rows or more that the sort reordered and that holds two
\* rows of one jurisdiction
C7_Witness ==
    /\ Succeeded
    /\ Len(summary_data) >= 3
    /\ summary_data # summary_rows(anomalies, missing_data, non_numeric)
    /\ \E p, q \in 1..Len(summary_data) :
          p < q /\ summary_data[p].muni = summary_data[q].muni

----------------------------------------------------------------------------
\* the events of the three lists, each with the dictionary of its kind
KeyedEvents ==
    {<<anomalies[p], anomaly_dict>> : p \in 1..Len(anomalies)}
        \cup {<<missing_data[p], missing_dict>> : p \in 1..Len(missing_data)}
        \cup {<<non_numeric[p], non_numeric_dict>> : p \in 1..Len(non_numeric)}

(* C9: for every event, also with blanks around the jurisdiction or the
   category, the key filed in the dictionary of its kind equals the key
   rebuilt from the pivot row of the event's jurisdiction, category and
   metric; that row exists, once, and its key is found in the dictionary. *)
C9_KeysAgree ==
    Built =>
        \A ed \in KeyedEvents :
            LET e == ed[1]
                R == PivotRowsOf(e.muni, e.category, e.metric)
            IN  /\ Cardinality(R) = 1
                /\ \A r \in R : /\ PivotKey(pivot_df.rows[r]) = EventKey(e)
                                /\ PivotKey(pivot_df.rows[r]) \in DOMAIN ed[2]

\* an event whose jurisdiction and category both carry a blank
C9_Witness ==
    /\ Built
    /\ \E ed \in KeyedEvents :
          strip(ed[1].muni) # ed[1].muni /\ strip(ed[1].category) # ed[1].category

----------------------------------------------------------------------------
(* C11: when the earlier rows of a cell's jurisdiction and category hold
   values of the metric that are not numbers next to values that are, the
   baseline of the cell is exactly the values that are numbers: an absent
   cell with such a value is recorded as Missing, and the baseline kept with
   an Anomaly is that sequence. *)
C11_OnlyFailingValuesDropped ==
    (LoopOver /\ pc # "raised") =>
        \A i \in TargetRows : \A j \in Metrics :
            csv_file[i].vals[j].kind # "str" =>
                /\ historical_data(csv_file,
                                   hist_rows(csv_file, csv_file[i].a_fiscal_year.n,
                                             csv_file[i].a_jurisdiction,
                                             csv_file[i].a_service, j), j)
                       = HistoryValues(i, j)
                /\ (csv_file[i].vals[j].kind = "na" /\ HistoryValues(i, j) # <<>>)
                       => At(missing_data, i, j) # {}
                /\ \A p \in At(anomalies, i, j) :
                       anomalies[p].historical_data = HistoryValues(i, j)

----------------------------------------------------------------------------
\* the entity key of an event: trimmed jurisdiction, trimmed category, metric
EntityKey(e) == <<strip(e.muni), strip(e.category), e.metric>>

(* C12: a run produces at most one event per entity key, so the three
   dictionaries together hold every event of the three lists and no key is
   in more than one dictionary. *)
C12_OneEventPerKey ==
    Built =>
        /\ \A a, b \in KeyedEvents : EntityKey(a[1]) = EntityKey(b[1]) => a[1] = b[1]
        /\ \A ed \in KeyedEvents :
              EntityKey(ed[1]) \in DOMAIN ed[2] /\ ed[2][EntityKey(ed[1])] = ed[1]
        /\ (DOMAIN anomaly_dict) \cap (DOMAIN missing_dict) = {}
        /\ (DOMAIN anomaly_dict) \cap (DOMAIN non_numeric_dict) = {}
        /\ (DOMAIN missing_dict) \cap (DOMAIN non_numeric_dict) = {}

----------------------------------------------------------------------------
\* row i has a category and a year that is a number
WellFormedRow(i) ==
    csv_file[i].a_service # NaN /\ csv_file[i].a_fiscal_year.kind = "num"

\* rows whose values can appear in the pivot cell of (m, c, k) for year y
PivotSources(m, c, j, y) ==
    {i \in 1..Len(csv_file) : /\ csv_file[i].a_jurisdiction = m
                              /\ csv_file[i].a_service = c
                              /\ csv_file[i].a_fiscal_year = y
                              /\ csv_file[i].vals[j].kind # "na"}

(* C13: every row that is classified, that serves as a history point, or
   that fills a cell of the pivoted table has a category and a year that is
   a number. *)
C13_ContributorsWellFormed ==
    /\ LoopOver =>
          \A ed \in KeyedEvents : WellFormedRow(ed[1].excel_row - 1)
    /\ LoopOver =>
          \A e \in HistoryEvents : \A k \in 1..Len(csv_file) :
              (\E p \in 1..Len(e.hist_comment) :
                   e.hist_comment[p] = <<csv_file[k].a_fiscal_year.n,
                                          csv_file[k].vals[e.excel_col - 3]>>
                   /\ csv_file[k].a_jurisdiction = e.muni
                   /\ csv_file[k].a_service = e.category
                   /\ csv_file[k].a_fiscal_year.kind = "num")
                  => WellFormedRow(k)
    /\ Built =>
          \A r \in 1..Len(pivot_df.rows) : \A q \in 1..Len(pivot_df.columns) :
              \A j \in Metrics :
                  (pivot_df.rows[r].Metric = metric_cols[j]
                   /\ pivot_df.rows[r].cells[q].kind # "na")
                      => \A i \in PivotSources(pivot_df.rows[r].Municipality,
                                               pivot_df.rows[r].Category, j,
                                               pivot_df.columns[q]) :
                             WellFormedRow(i)

----------------------------------------------------------------------------
\* number of events of the three lists recorded for the cell (row i, metric j)
EventsAt(i, j) ==
    Cardinality(At(anomalies, i, j)) + Cardinality(At(missing_data, i, j))
        + Cardinality(At(non_numeric, i, j))

(* C14: every event belongs to a cell of a row whose year equals the target
   year; a cell has at most one event in the three lists together; an absent
   value is only ever Missing, a value that is not a number only ever
   NonNumeric, a number only ever an Anomaly. *)
C14_CellInAtMostOneList ==
    LoopOver =>
        /\ \A ed \in KeyedEvents :
              /\ ed[1].excel_row - 1 \in TargetRows
              /\ ed[1].excel_col - 3 \in Metrics
        /\ \A i \in 1..Len(csv_file) : \A j \in Metrics :
              /\ EventsAt(i, j) <= 1
              /\ csv_file[i].vals[j].kind = "na"
                    => At(anomalies, i, j) = {} /\ At(non_numeric, i, j) = {}
              /\ csv_file[i].vals[j].kind = "str"
                    => At(anomalies, i, j) = {} /\ At(missing_data, i, j) = {}
              /\ csv_file[i].vals[j].kind = "num"
                    => At(missing_data, i, j) = {} /\ At(non_numeric, i, j) = {}

\* a run that recorded a Missing and a NonNumeric event while the file holds
\* a row of another year with a value
C14_Witness ==
    /\ LoopOver
    /\ missing_data # <<>>
    /\ non_numeric # <<>>
    /\ \E i \in DetectionSet \ TargetRows : \E j \in Metrics :
          csv_file[i].vals[j].kind # "na"

====
